---- MODULE Spec2Model ----
(***************************************************************************)
(* Model of guessit's guess merging engine (src/guessit/guess.py): the     *)
(* Guess record, the scalar reconcilers choose_int / choose_string, the    *)
(* pairwise and append merges and the final reduction merge_all.           *)
(*                                                                         *)
(* Confidences are Python floats in the code.  They are modelled as exact  *)
(* rationals [n, d] in lowest terms, so that 1-(1-c1)*(1-c2) and c1-c2 are *)
(* computed without loss; floating point rounding is not modelled.         *)
(***************************************************************************)
EXTENDS Integers, Sequences, FiniteSets, TLC

VARIABLES guesses, last, budget, choice

vars == <<guesses, last, budget, choice>>

(***************************************************************************)
(* Bounds of the model.                                                    *)
(***************************************************************************)
MaxGuesses == 3
MaxCalls == 2
MaxBuilt == 2
RecursionLimit == 6

(***************************************************************************)
(* Rational arithmetic for confidences.                                    *)
(***************************************************************************)
Abs(x) == IF x < 0 THEN -x ELSE x

RECURSIVE GCD(_, _)
GCD(a, b) == IF b = 0 THEN a ELSE GCD(b, a % b)

R(n, d) ==
  LET g == GCD(Abs(n), d)
  IN  [n |-> n \div g, d |-> d \div g]

RSub(a, b) == R(a.n * b.d - b.n * a.d, a.d * b.d)
RMul(a, b) == R(a.n * b.n, a.d * b.d)
RLt(a, b) == a.n * b.d < b.n * a.d
RGt(a, b) == RLt(b, a)
RGeq(a, b) == ~RLt(a, b)
RLeq(a, b) == ~RLt(b, a)
RMax(a, b) == IF RLt(a, b) THEN b ELSE a
RAbs(a) == [n |-> Abs(a.n), d |-> a.d]
One == R(1, 1)
Zero == R(0, 1)

\* confidence = None (an argument left out)
None == [n |-> 0, d |-> 0]

\* the literal 0.05 of merge_all's pruning pass
Threshold == R(1, 20)

(***************************************************************************)
(* Property values: an int, a string or a list of values.  One record     *)
(* shape for all, so that Python's == between values of different types is *)
(* plain inequality.                                                       *)
(***************************************************************************)
IntV(i) == [t |-> "int", i |-> i, s |-> <<>>, l |-> <<>>]
StrV(s) == [t |-> "str", i |-> 0, s |-> s, l |-> <<>>]
ListV(l) == [t |-> "list", i |-> 0, s |-> <<>>, l |-> l]
IsList(v) == v.t = "list"

(***************************************************************************)
(* Strings, as sequences of characters, with str.strip and str.lower.      *)
(***************************************************************************)
LowerChar(c) ==
  CASE c = "T" -> "t"
    [] c = "H" -> "h"
    [] c = "E" -> "e"
    [] c = "M" -> "m"
    [] c = "X" -> "x"
    [] OTHER -> c

Lower(s) == [i \in 1..Len(s) |-> LowerChar(s[i])]

RECURSIVE LStrip(_)
LStrip(s) == IF s # <<>> /\ Head(s) = " " THEN LStrip(Tail(s)) ELSE s

RECURSIVE RStrip(_)
RStrip(s) ==
  IF s # <<>> /\ s[Len(s)] = " " THEN RStrip(SubSeq(s, 1, Len(s) - 1)) ELSE s

Strip(s) == RStrip(LStrip(s))

\* Python's  a in b  for strings
Contains(b, a) ==
  \E i \in 0..(Len(b) - Len(a)) : SubSeq(b, i + 1, i + Len(a)) = a

The == <<"t", "h", "e", " ">>

(***************************************************************************)
(* The scalar reconcilers.  A pair is <<value, confidence>>.               *)
(***************************************************************************)
\* mutant: the product of the confidences instead of their complements
CombinedProbNoComplement(c1, c2) == RSub(One, RMul(c1, c2))

CombinedProb(c1, c2) == RSub(One, RMul(RSub(One, c1), RSub(One, c2)))

\* mutant: a tie of the confidences goes to the first value
HighestPriorityTieFirst(v1, c1, v2, c2) ==
  IF RGeq(c1, c2) THEN <<v1, RSub(c1, c2)>> ELSE <<v2, RSub(c2, c1)>>

HighestPriority(v1, c1, v2, c2) ==
  IF RGt(c1, c2) THEN <<v1, RSub(c1, c2)>> ELSE <<v2, RSub(c2, c1)>>

choose_int(g1, g2) ==
  LET v1 == g1[1]
      c1 == g1[2]
      v2 == g2[1]
      c2 == g2[2]
  IN  IF v1 = v2
        THEN <<v1, CombinedProb(c1, c2)>>
        ELSE HighestPriority(v1, c1, v2, c2)

\* mutant: the substring rule tried before the "the " rule
choose_string_substring_first(g1, g2) ==
  LET c1 == g1[2]
      c2 == g2[2]
      v1 == Strip(g1[1].s)
      v2 == Strip(g2[1].s)
      v1l == Lower(v1)
      v2l == Lower(v2)
      combined_prob == RSub(One, RMul(RSub(One, c1), RSub(One, c2)))
  IN  IF v1l = v2l THEN <<StrV(v1), combined_prob>>
      ELSE IF Contains(v1l, v2l) THEN <<StrV(v2), combined_prob>>
      ELSE IF Contains(v2l, v1l) THEN <<StrV(v1), combined_prob>>
      ELSE IF RGt(c1, c2) THEN <<StrV(v1), RSub(c1, c2)>>
      ELSE <<StrV(v2), RSub(c2, c1)>>

choose_string(g1, g2) ==
  LET c1 == g1[2]
      c2 == g2[2]
      v1 == Strip(g1[1].s)
      v2 == Strip(g2[1].s)
      v1l == Lower(v1)
      v2l == Lower(v2)
      combined_prob == CombinedProb(c1, c2)
  IN  IF v1l = v2l THEN <<StrV(v1), combined_prob>>
      ELSE IF v1l = The \o v2l THEN <<StrV(v1), combined_prob>>
      ELSE IF v2l = The \o v1l THEN <<StrV(v2), combined_prob>>
      ELSE IF Contains(v1l, v2l) THEN <<StrV(v2), combined_prob>>
      ELSE IF Contains(v2l, v1l) THEN <<StrV(v1), combined_prob>>
      ELSE HighestPriority(StrV(v1), c1, StrV(v2), c2)

\* the reconciler handed to merge_similar_guesses; choose_string calls
\* v.strip() first, which only a string has
Choose(chooser, g1, g2) ==
  IF chooser = "choose_int"
    THEN [err |-> "none", out |-> choose_int(g1, g2)]
  ELSE IF g1[1].t = "str" /\ g2[1].t = "str"
    THEN [err |-> "none", out |-> choose_string(g1, g2)]
  ELSE [err |-> "AttributeError", out |-> g1]

(***************************************************************************)
(* Guess: a dict of values (val) with a dict of confidences (conf).        *)
(***************************************************************************)
Props == {"episodeNumber", "title"}

PropValues(p) ==
  IF p = "title" THEN {StrV(<<"M">>), StrV(<<"M", "x">>)} ELSE {IntV(1), IntV(2)}

\* the orders in which a dict may list its keys: one order of all names
Orders == {o \in [1..Cardinality(Props) -> Props] : \A p \in Props : \E i \in DOMAIN o : o[i] = p}

Put(f, k, v) == [x \in DOMAIN f \cup {k} |-> IF x = k THEN v ELSE f[x]]
Drop(f, k) == [x \in DOMAIN f \ {k} |-> f[x]]
Overlay(f, g) == [x \in DOMAIN f \cup DOMAIN g |-> IF x \in DOMAIN g THEN g[x] ELSE f[x]]
Empty == [x \in {} |-> 0]

Keys(g) == DOMAIN g.val
KeysIn(g, ord) == SelectSeq(ord, LAMBDA p : p \in Keys(g))

\* Guess(vals, confidence = c)
Guess(vals, c) == [val |-> vals, conf |-> [p \in DOMAIN vals |-> c]]

set(g, prop, value, confidence) ==
  [val |-> Put(g.val, prop, value),
   conf |-> IF confidence # None THEN Put(g.conf, prop, confidence) ELSE g.conf]

set_confidence(g, prop, value) == [g EXCEPT !.conf = Put(g.conf, prop, value)]

\* for prop in other: self._confidence[prop] = other.confidence(prop)
RECURSIVE CopyConfidences(_, _, _)
CopyConfidences(self, other, props) ==
  IF props = <<>> THEN [g |-> self, err |-> "none"]
  ELSE IF Head(props) \notin DOMAIN other.conf THEN [g |-> self, err |-> "KeyError"]
  ELSE CopyConfidences(set_confidence(self, Head(props), other.conf[Head(props)]),
                       other, Tail(props))

update(self, other, confidence, ord) ==
  LET updated == [self EXCEPT !.val = Overlay(self.val, other.val)]
      copied == CopyConfidences(updated, other, KeysIn(other, ord))
  IN  IF copied.err # "none" \/ confidence = None THEN copied
      ELSE [g |-> [copied.g EXCEPT !.conf =
                     Overlay(@, [p \in Keys(other) |-> confidence])],
            err |-> "none"]

\* mutant: a later guess of equal confidence replaces the running value
KeepsOwnStrict(self, other, prop) ==
  prop \in Keys(self) /\ RGt(self.conf[prop], other.conf[prop])

KeepsOwn(self, other, prop) ==
  prop \in Keys(self) /\ RGeq(self.conf[prop], other.conf[prop])

RECURSIVE HighestConfidence(_, _, _)
HighestConfidence(self, other, props) ==
  IF props = <<>> THEN [g |-> self, err |-> "none"]
  ELSE LET prop == Head(props)
       IN  IF prop \in Keys(self)
                /\ (prop \notin DOMAIN self.conf \/ prop \notin DOMAIN other.conf)
             THEN [g |-> self, err |-> "KeyError"]
           ELSE IF KeepsOwn(self, other, prop)
             THEN HighestConfidence(self, other, Tail(props))
           ELSE IF prop \notin DOMAIN other.conf
             THEN [g |-> [self EXCEPT !.val = Put(@, prop, other.val[prop])],
                   err |-> "KeyError"]
           ELSE HighestConfidence(set(self, prop, other.val[prop], other.conf[prop]),
                                  other, Tail(props))

update_highest_confidence(self, other, ord) ==
  HighestConfidence(self, other, KeysIn(other, ord))

(***************************************************************************)
(* A guess list inside a call: the objects (h, by identity) and the list    *)
(* of the identities it holds (ids).  list.remove(x) drops the first item   *)
(* that is == x, and two Guess dicts are == when their values are.          *)
(***************************************************************************)
Enter(gs) == [h |-> gs, ids |-> [i \in 1..Len(gs) |-> i], err |-> "none"]
Leave(st) == [i \in 1..Len(st.ids) |-> st.h[st.ids[i]]]
Raise(st, e) == [st EXCEPT !.err = e]

SimilarIds(st, prop) == SelectSeq(st.ids, LAMBDA i : prop \in Keys(st.h[i]))

FirstEqual(st, g) ==
  CHOOSE k \in 1..Len(st.ids) :
    /\ st.h[st.ids[k]].val = g.val
    /\ \A j \in 1..(k - 1) : st.h[st.ids[j]].val # g.val

Remove(st, id) ==
  LET k == FirstEqual(st, st.h[id])
  IN  [st EXCEPT !.ids = SubSeq(st.ids, 1, k - 1) \o SubSeq(st.ids, k + 1, Len(st.ids))]

\* mutant: the ambiguity check dropped
NoAmbiguity(g1, g2) == FALSE

Ambiguous(g1, g2) == Cardinality(Keys(g1) \cap Keys(g2)) > 1

_merge_similar_guesses_nocheck(st, prop, chooser, ord) ==
  LET similar == SimilarIds(st, prop)
  IN  IF Len(similar) < 2 THEN Raise(st, "IndexError")
      ELSE
        LET i1 == similar[1]
            i2 == similar[2]
            g1 == st.h[i1]
            g2 == st.h[i2]
        IN  IF Ambiguous(g1, g2) THEN st
            ELSE IF prop \notin DOMAIN g1.conf \/ prop \notin DOMAIN g2.conf
              THEN Raise(st, "KeyError")
            ELSE
              LET chosen == Choose(chooser, <<g1.val[prop], g1.conf[prop]>>,
                                   <<g2.val[prop], g2.conf[prop]>>)
                  new_g2 == set_confidence([g2 EXCEPT !.val = Put(@, prop, chosen.out[1])],
                                           prop, chosen.out[2])
                  merged == update(g1, new_g2, None, ord)
                  st2 == [st EXCEPT !.h[i2] = new_g2, !.h[i1] = merged.g]
              IN  IF chosen.err # "none" THEN Raise(st, chosen.err)
                  ELSE IF merged.err # "none" THEN Raise(st2, merged.err)
                  ELSE Remove(st2, i2)

RECURSIVE merge_similar_guesses(_, _, _, _, _)
merge_similar_guesses(st, prop, chooser, ord, depth) ==
  LET n == Len(SimilarIds(st, prop))
  IN  IF depth > RecursionLimit THEN Raise(st, "RuntimeError")
      ELSE IF n < 2 THEN st
      ELSE IF n = 2 THEN _merge_similar_guesses_nocheck(st, prop, chooser, ord)
      ELSE LET merged == _merge_similar_guesses_nocheck(st, prop, chooser, ord)
           IN  IF merged.err # "none" THEN merged
               ELSE merge_similar_guesses(merged, prop, chooser, ord, depth + 1)

(***************************************************************************)
(* merge_append_guesses.  The warning of line 217 formats a string with    *)
(* one conversion from a tuple of two arguments before it is logged.       *)
(***************************************************************************)
WarningConversions == 1
WarningArguments == 2

WarningFormats == WarningConversions = WarningArguments

\* for prop2 in m: ...
RECURSIVE AppendGuess(_, _, _, _, _)
AppendGuess(st, merged, m, prop, props) ==
  IF props = <<>> THEN st
  ELSE LET prop2 == Head(props)
           g == st.h[merged]
       IN  IF prop = prop2
             THEN AppendGuess(
                    [st EXCEPT !.h[merged].val =
                       Put(@, prop, ListV(Append(g.val[prop].l, st.h[m].val[prop])))],
                    merged, m, prop, Tail(props))
           ELSE IF ~WarningFormats THEN Raise(st, "TypeError")
           ELSE AppendGuess(
                  [st EXCEPT !.h[merged].val = Put(@, prop2, st.h[m].val[prop2])],
                  merged, m, prop, Tail(props))

\* for m in similar[1:]: ...; guesses.remove(m)
RECURSIVE AppendSimilar(_, _, _, _, _)
AppendSimilar(st, merged, rest, prop, ord) ==
  IF rest = <<>> THEN st
  ELSE LET m == Head(rest)
           appended == AppendGuess(st, merged, m, prop, KeysIn(st.h[m], ord))
       IN  IF appended.err # "none" THEN appended
           ELSE AppendSimilar(Remove(appended, m), merged, Tail(rest), prop, ord)

merge_append_guesses(st, prop, ord) ==
  LET similar == SimilarIds(st, prop)
  IN  IF similar = <<>> THEN st
      ELSE LET merged == similar[1]
           IN  AppendSimilar(
                 [st EXCEPT !.h[merged].val = Put(@, prop, ListV(<<@[prop]>>))],
                 merged, Tail(similar), prop, ord)

(***************************************************************************)
(* merge_all.  h is the list (merge_all removes nothing from it), h[1] the *)
(* running result.                                                         *)
(***************************************************************************)
\* for prop in append: if prop in g: result.set(...); del g[prop]
RECURSIVE AppendProperties(_, _, _)
AppendProperties(h, k, append) ==
  IF append = <<>> THEN [h |-> h, err |-> "none"]
  ELSE LET prop == Head(append)
           result == h[1]
           g == h[k]
           sofar == IF prop \in Keys(result) THEN result.val[prop] ELSE ListV(<<>>)
       IN  IF prop \notin Keys(g) THEN AppendProperties(h, k, Tail(append))
           ELSE IF ~IsList(sofar) THEN [h |-> h, err |-> "TypeError"]
           ELSE IF prop \notin DOMAIN g.conf THEN [h |-> h, err |-> "KeyError"]
           ELSE AppendProperties(
                  [h EXCEPT ![1] = set(result, prop,
                                       ListV(Append(sofar.l, g.val[prop])),
                                       g.conf[prop]),
                            ![k] = [g EXCEPT !.val = Drop(@, prop)]],
                  k, Tail(append))

\* for g in guesses[1:]: ...
RECURSIVE MergeEach(_, _, _, _)
MergeEach(h, k, append, ord) ==
  IF k > Len(h) THEN [h |-> h, err |-> "none"]
  ELSE LET appended == AppendProperties(h, k, append)
           merged == update_highest_confidence(appended.h[1], appended.h[k], ord)
           h2 == [appended.h EXCEPT ![1] = merged.g]
       IN  IF appended.err # "none" THEN appended
           ELSE IF merged.err # "none" THEN [h |-> h2, err |-> merged.err]
           ELSE MergeEach(h2, k + 1, append, ord)

\* mutant: a confidence of exactly 0.05 is pruned too
UnlikelyOrEqual(c) == RLeq(c, Threshold)

Unlikely(c) == RLt(c, Threshold)

\* for p in result.keys(): if result.confidence(p) < 0.05: del result[p]
RECURSIVE Prune(_, _)
Prune(result, props) ==
  IF props = <<>> THEN [g |-> result, err |-> "none"]
  ELSE LET p == Head(props)
       IN  IF p \notin DOMAIN result.conf THEN [g |-> result, err |-> "KeyError"]
           ELSE IF Unlikely(result.conf[p])
             THEN Prune([result EXCEPT !.val = Drop(@, p)], Tail(props))
           ELSE Prune(result, Tail(props))

Perms(S) == {f \in [1..Cardinality(S) -> S] : \A x \in S : \E i \in DOMAIN f : f[i] = x}

\* mutant: the elements of a list cannot be hashed into a set
DistinctUnhashable(v) ==
  IF v.t = "str" THEN {[err |-> "none", v |-> ListV(f)] :
                         f \in Perms({StrV(<<v.s[i]>>) : i \in DOMAIN v.s})}
  ELSE {[err |-> "TypeError", v |-> v]}

\* list(set(v)): the outcomes, one per order the set may list its elements in
Distinct(v) ==
  IF v.t = "int" THEN {[err |-> "TypeError", v |-> v]}
  ELSE IF v.t = "list" /\ \E i \in DOMAIN v.l : IsList(v.l[i])
    THEN {[err |-> "TypeError", v |-> v]}
  ELSE LET elements == IF v.t = "str" THEN {StrV(<<v.s[i]>>) : i \in DOMAIN v.s}
                       ELSE {v.l[i] : i \in DOMAIN v.l}
       IN  {[err |-> "none", v |-> ListV(f)] : f \in Perms(elements)}

\* for prop in append: if prop in result: result[prop] = list(set(result[prop]))
RECURSIVE Unique(_, _)
Unique(result, append) ==
  IF append = <<>> THEN {[g |-> result, err |-> "none"]}
  ELSE LET prop == Head(append)
       IN  IF prop \notin Keys(result) THEN Unique(result, Tail(append))
           ELSE UNION {
                  IF d.err # "none" THEN {[g |-> result, err |-> d.err]}
                  ELSE Unique([result EXCEPT !.val = Put(@, prop, d.v)], Tail(append)) :
                  d \in Distinct(result.val[prop])}

\* the outcomes of merge_all(guesses, append): the list afterwards (h), the
\* running result once the loop is through (mid), the guess returned (ret);
\* mid and ret hold no guess when an exception came first
merge_all(gs, append, ord) ==
  IF gs = <<>>
    THEN {[h |-> gs, err |-> "none", mid |-> <<>>, ret |-> <<Guess(Empty, Zero)>>]}
  ELSE LET each == MergeEach(gs, 2, append, ord)
           mid == each.h[1]
           pruned == Prune(mid, KeysIn(mid, ord))
           raised(g, e) == [h |-> [each.h EXCEPT ![1] = g], err |-> e,
                            mid |-> <<mid>>, ret |-> <<>>]
       IN  IF each.err # "none"
             THEN {[h |-> each.h, err |-> each.err, mid |-> <<>>, ret |-> <<>>]}
           ELSE IF pruned.err # "none" THEN {raised(pruned.g, pruned.err)}
           ELSE {IF u.err # "none" THEN raised(u.g, u.err)
                 ELSE [h |-> [each.h EXCEPT ![1] = u.g], err |-> "none",
                       mid |-> <<mid>>, ret |-> <<u.g>>] :
                 u \in Unique(pruned.g, append)}

(***************************************************************************)
(* Inputs of the reconcilers.                                              *)
(***************************************************************************)
ChooseConfs ==
  {R(0 - 1, 2), Zero, R(1, 5), R(1, 2), R(3, 5), One, R(3, 2)}

ChooseInts == {IntV(1), IntV(2)}

ChooseStrings ==
  { StrV(<<>>),
    StrV(<<"M">>),
    StrV(<<"m">>),
    StrV(<<" ", "M">>),
    StrV(<<"M", "x">>),
    StrV(<<"x">>),
    StrV(<<"T", "h", "e", " ", "M">>),
    StrV(<<"t", "h", "e", " ", "M", "x", " ">>) }

\* A reconciler call: its arguments, and once it has run, what it returned.
Call(fn, v1, c1, v2, c2) ==
  [fn |-> fn, done |-> FALSE, v1 |-> v1, c1 |-> c1, v2 |-> v2, c2 |-> c2,
   rv |-> v1, rc |-> c1]

NoChoice == Call("none", IntV(0), Zero, IntV(0), Zero)


ChooseCalls ==
  {Call("choose_int", v1, c1, v2, c2) :
     v1 \in ChooseInts, c1 \in ChooseConfs, v2 \in ChooseInts, c2 \in ChooseConfs}
  \cup
  {Call("choose_string", v1, c1, v2, c2) :
     v1 \in ChooseStrings, c1 \in ChooseConfs, v2 \in ChooseStrings,
     c2 \in ChooseConfs}

\* The last call: its name and arguments, the list (or the guess) it was
\* given, the exception it raised if any, and for merge_all the running
\* result after its loop and the guess it returned.
Called(op, pre, idx, prop, chooser, app, conf, err, mid, ret) ==
  [op |-> op, pre |-> pre, idx |-> idx, prop |-> prop, chooser |-> chooser,
   app |-> app, conf |-> conf, err |-> err, mid |-> mid, ret |-> ret]

NoCall == Called("none", <<>>, 0, "", "", <<>>, None, "none", <<>>, <<>>)

ChooseInit ==
  /\ guesses = <<>>
  /\ last = NoCall
  /\ budget = 0
  /\ choice \in ChooseCalls

ChooseIntCall ==
  /\ choice.fn = "choose_int"
  /\ ~choice.done
  /\ LET r == choose_int(<<choice.v1, choice.c1>>, <<choice.v2, choice.c2>>)
     IN  choice' = [choice EXCEPT !.done = TRUE, !.rv = r[1], !.rc = r[2]]
  /\ UNCHANGED <<guesses, last, budget>>

ChooseStringCall ==
  /\ choice.fn = "choose_string"
  /\ ~choice.done
  /\ LET r == choose_string(<<choice.v1, choice.c1>>, <<choice.v2, choice.c2>>)
     IN  choice' = [choice EXCEPT !.done = TRUE, !.rv = r[1], !.rc = r[2]]
  /\ UNCHANGED <<guesses, last, budget>>

ChooseNext == ChooseIntCall \/ ChooseStringCall

ChooseSpec == ChooseInit /\ [][ChooseNext]_vars

(***************************************************************************)
(* The guess lists the rule engine hands over: every guess built by the    *)
(* constructor, one confidence for all its properties.                     *)
(***************************************************************************)
InitConfs == {R(1, 50), Threshold, R(1, 5)}

ValMaps ==
  UNION {{f \in [S -> UNION {PropValues(p) : p \in Props}] :
            \A p \in S : f[p] \in PropValues(p)} : S \in SUBSET Props}

Built(confs) == {Guess(vals, c) : vals \in ValMaps, c \in confs}

Lists(n, confs) == UNION {[1..k -> Built(confs)] : k \in 0..n}

\* the reconciler a property is merged with: choose_string for the title,
\* choose_int for the numbers
Reconciler(prop) == IF prop = "title" THEN "choose_string" ELSE "choose_int"

Appends == {<<>>, <<"episodeNumber">>, <<"title">>, <<"episodeNumber", "title">>}

Init ==
  /\ guesses \in Lists(MaxGuesses, InitConfs)
  /\ last = NoCall
  /\ budget = 1
  /\ choice = NoChoice

\* a call can be made: calls are left, and no exception has ended the run
Ready == budget > 0 /\ last.err = "none"

MergeSimilarNocheck ==
  /\ Ready
  /\ \E prop \in Props, ord \in Orders :
       LET st == Enter(guesses)
           chooser == Reconciler(prop)
           r == _merge_similar_guesses_nocheck(st, prop, chooser, ord)
       IN  /\ Len(SimilarIds(st, prop)) >= 2
           /\ guesses' = Leave(r)
           /\ last' = Called("_merge_similar_guesses_nocheck", guesses, 0, prop,
                             chooser, <<>>, None, r.err, <<>>, <<>>)
  /\ budget' = budget - 1
  /\ UNCHANGED choice

MergeSimilar ==
  /\ Ready
  /\ \E prop \in Props, ord \in Orders :
       LET chooser == Reconciler(prop)
           r == merge_similar_guesses(Enter(guesses), prop, chooser, ord, 1)
       IN  /\ guesses' = Leave(r)
           /\ last' = Called("merge_similar_guesses", guesses, 0, prop, chooser,
                             <<>>, None, r.err, <<>>, <<>>)
  /\ budget' = budget - 1
  /\ UNCHANGED choice

MergeAppend ==
  /\ Ready
  /\ \E prop \in Props, ord \in Orders :
       LET r == merge_append_guesses(Enter(guesses), prop, ord)
       IN  /\ guesses' = Leave(r)
           /\ last' = Called("merge_append_guesses", guesses, 0, prop, "", <<>>,
                             None, r.err, <<>>, <<>>)
  /\ budget' = budget - 1
  /\ UNCHANGED choice

MergeAll ==
  /\ Ready
  /\ \E append \in Appends, ord \in Orders :
       \E r \in merge_all(guesses, append, ord) :
         /\ guesses' = r.h
         /\ last' = Called("merge_all", guesses, 0, "", "", append, None, r.err,
                           r.mid, r.ret)
  /\ budget' = budget - 1
  /\ UNCHANGED choice

\* merge_all called once more, on the list [r] of the guess r it has just
\* returned, with the same append properties (idx 1 marks this second call)
MergeAllAgain ==
  /\ last.op = "merge_all"
  /\ last.idx = 0
  /\ last.err = "none"
  /\ last.ret # <<>>
  /\ \E ord \in Orders :
       \E r \in merge_all(last.ret, last.app, ord) :
         /\ guesses' = r.h
         /\ last' = Called("merge_all", last.ret, 1, "", "", last.app, None, r.err,
                           r.mid, r.ret)
  /\ UNCHANGED <<budget, choice>>

Next == MergeSimilarNocheck \/ MergeSimilar \/ MergeAppend \/ MergeAll \/ MergeAllAgain

Spec == Init /\ [][Next]_vars

(***************************************************************************)
(* The Guess methods called on the guesses of a list, followed or not by   *)
(* the merges.                                                             *)
(***************************************************************************)
ArgConfs == {None, R(3, 5)}

BuiltConfs == {R(1, 50), R(1, 5)}

GuessInit ==
  /\ guesses \in Lists(MaxBuilt, BuiltConfs)
  /\ last = NoCall
  /\ budget = MaxCalls
  /\ choice = NoChoice

NewGuess ==
  /\ Ready
  /\ Len(guesses) < MaxGuesses
  /\ \E g \in Built(BuiltConfs) :
       /\ guesses' = Append(guesses, g)
       /\ last' = Called("Guess", <<>>, Len(guesses) + 1, "", "", <<>>, None, "none",
                         <<>>, <<>>)
  /\ budget' = budget - 1
  /\ UNCHANGED choice

Set ==
  /\ Ready
  /\ \E i \in DOMAIN guesses, prop \in Props, confidence \in ArgConfs :
       \E value \in PropValues(prop) :
         /\ guesses' = [guesses EXCEPT ![i] = set(@, prop, value, confidence)]
         /\ last' = Called("set", <<guesses[i]>>, i, prop, "", <<>>, confidence,
                           "none", <<>>, <<>>)
  /\ budget' = budget - 1
  /\ UNCHANGED choice

SetConfidence ==
  /\ Ready
  /\ \E i \in DOMAIN guesses, prop \in Props, value \in ArgConfs \ {None} :
       /\ guesses' = [guesses EXCEPT ![i] = set_confidence(@, prop, value)]
       /\ last' = Called("set_confidence", <<>>, i, prop, "", <<>>, value,
                         "none", <<>>, <<>>)
  /\ budget' = budget - 1
  /\ UNCHANGED choice

Update ==
  /\ Ready
  /\ \E i \in DOMAIN guesses, j \in DOMAIN guesses, confidence \in ArgConfs, ord \in Orders :
       \E r \in {update(guesses[i], guesses[j], confidence, ord)} :
         /\ guesses' = [guesses EXCEPT ![i] = r.g]
         /\ last' = Called("update", <<>>, i, "", "", <<>>,
                           confidence, r.err, <<>>, <<>>)
  /\ budget' = budget - 1
  /\ UNCHANGED choice

UpdateHighestConfidence ==
  /\ Ready
  /\ \E i \in DOMAIN guesses, j \in DOMAIN guesses, ord \in Orders :
       \E r \in {update_highest_confidence(guesses[i], guesses[j], ord)} :
         /\ guesses' = [guesses EXCEPT ![i] = r.g]
         /\ last' = Called("update_highest_confidence", <<>>, i,
                           "", "", <<>>, None, r.err, <<>>, <<>>)
  /\ budget' = budget - 1
  /\ UNCHANGED choice

GuessNext ==
  \/ NewGuess
  \/ Set
  \/ SetConfidence
  \/ Update
  \/ UpdateHighestConfidence
  \/ MergeSimilarNocheck
  \/ MergeSimilar
  \/ MergeAppend
  \/ MergeAll

GuessSpec == GuessInit /\ [][GuessNext]_vars

(***************************************************************************)
(* Claims about the reconcilers (ChooseSpec).                              *)
(***************************************************************************)
RAdd(a, b) == R(a.n * b.d + b.n * a.d, a.d * b.d)
ProbOr(c1, c2) == RSub(RAdd(c1, c2), RMul(c1, c2))
InUnit(c) == RLeq(Zero, c) /\ RLeq(c, One)
Trimmed(v) == IF v.t = "str" THEN StrV(Strip(v.s)) ELSE v
Folded(v) == Lower(Strip(v.s))
IsThePlus(a, b) == Folded(a) = The \o Folded(b)
Returned == <<choice.rv, choice.rc>>

\* C8 as stated: for equal values choose_int and choose_string return the
\* value v with confidence 1-(1-c1)(1-c2), which is >= max(c1,c2).
C8_AsStated ==
  (choice.done /\ choice.v1 = choice.v2) =>
    /\ choice.rv = choice.v1
    /\ choice.rc = ProbOr(choice.c1, choice.c2)
    /\ RGeq(choice.rc, RMax(choice.c1, choice.c2))

\* C8 amended: for equal values the reconcilers return v (choose_string: v
\* with its surrounding whitespace trimmed) with confidence 1-(1-c1)(1-c2);
\* that confidence is >= max(c1,c2) when c1 and c2 both lie in [0,1].
C8_EqualValuesCombine ==
  (choice.done /\ choice.v1 = choice.v2) =>
    /\ choice.rv = Trimmed(choice.v1)
    /\ choice.rc = ProbOr(choice.c1, choice.c2)
    /\ (InUnit(choice.c1) /\ InUnit(choice.c2)) =>
         RGeq(choice.rc, RMax(choice.c1, choice.c2))

C8_Witness ==
  /\ choice.done
  /\ choice.fn = "choose_string"
  /\ choice.v1 = StrV(<<"T", "h", "e", " ", "M">>)
  /\ choice.v2 = choice.v1
  /\ choice.c1 = R(1, 5)
  /\ choice.c2 = R(3, 5)
  /\ Returned = <<choice.v1, R(17, 25)>>

\* the outcome of a conflict: the value of strictly higher confidence, the
\* second value on a tie, with confidence |c1-c2|
ConflictOutcome(v1, c1, v2, c2) ==
  /\ RGt(c1, c2) => Returned = <<v1, RSub(c1, c2)>>
  /\ RGt(c2, c1) => Returned = <<v2, RSub(c2, c1)>>
  /\ c1 = c2 => Returned = <<v2, Zero>>
  /\ choice.rc = RAbs(RSub(c1, c2))

\* C9 as stated: for v1 # v2 the reconciler returns the value of strictly
\* higher confidence (v2 on a tie) with confidence |c1-c2|, for choose_int
\* and for choose_string.
C9_AsStated ==
  (choice.done /\ choice.v1 # choice.v2) =>
    ConflictOutcome(choice.v1, choice.c1, choice.v2, choice.c2)

Similar(a, b) ==
  \/ Folded(a) = Folded(b)
  \/ IsThePlus(a, b)
  \/ IsThePlus(b, a)
  \/ Contains(Folded(a), Folded(b))
  \/ Contains(Folded(b), Folded(a))

\* C9 amended: choose_int does so for all differing values; choose_string
\* does so, returning the winning string trimmed, when the trimmed,
\* lower-cased strings are not equal, neither is "the " plus the other and
\* neither contains the other.
C9_ConflictTakesHigher ==
  /\ (choice.done /\ choice.fn = "choose_int" /\ choice.v1 # choice.v2) =>
       ConflictOutcome(choice.v1, choice.c1, choice.v2, choice.c2)
  /\ (choice.done /\ choice.fn = "choose_string"
        /\ ~Similar(choice.v1, choice.v2)) =>
       ConflictOutcome(Trimmed(choice.v1), choice.c1, Trimmed(choice.v2), choice.c2)

C9_Witness ==
  /\ choice.done
  /\ choice.fn = "choose_string"
  /\ choice.v1 = StrV(<<"x">>)
  /\ choice.v2 = StrV(<<" ", "M">>)
  /\ choice.c1 = R(1, 2)
  /\ choice.c2 = R(1, 2)
  /\ Returned = <<StrV(<<"M">>), Zero>>

\* the three similarity rules in their order; the value returned is an
\* input as it was given, or (trimmed) with its surrounding whitespace cut
SimilarityRules(trimmed) ==
  LET v1 == choice.v1
      v2 == choice.v2
      in1 == IF trimmed THEN Trimmed(v1) ELSE v1
      in2 == IF trimmed THEN Trimmed(v2) ELSE v2
  IN  /\ Folded(v1) = Folded(v2) => choice.rv = in1
      /\ (Folded(v1) # Folded(v2) /\ IsThePlus(v1, v2)) => choice.rv = in1
      /\ (Folded(v1) # Folded(v2) /\ IsThePlus(v2, v1)) => choice.rv = in2
      /\ (Folded(v1) # Folded(v2) /\ ~IsThePlus(v1, v2) /\ ~IsThePlus(v2, v1)
            /\ Contains(Folded(v1), Folded(v2))) =>
           (choice.rv = in2 /\ Len(Folded(v2)) < Len(Folded(v1)))
      /\ (Folded(v1) # Folded(v2) /\ ~IsThePlus(v1, v2) /\ ~IsThePlus(v2, v1)
            /\ Contains(Folded(v2), Folded(v1))) =>
           (choice.rv = in1 /\ Len(Folded(v1)) < Len(Folded(v2)))
      /\ Similar(v1, v2) => choice.rc = ProbOr(choice.c1, choice.c2)
      /\ choice.rv \in {in1, in2}

\* C10 as stated: choose_string returns v1 on case-insensitive equality, else
\* the "the "-prefixed string, else the shorter of two strings one of which
\* contains the other, with confidence 1-(1-c1)(1-c2); the returned value is
\* always one of the two inputs.
C10_AsStated ==
  (choice.done /\ choice.fn = "choose_string") => SimilarityRules(FALSE)

\* C10 amended: the same rules in the same order, where the value returned
\* is always one of the two inputs with its surrounding whitespace trimmed
\* (casing kept).
C10_RulesInOrder ==
  (choice.done /\ choice.fn = "choose_string") => SimilarityRules(TRUE)

C10_Witness ==
  /\ choice.done
  /\ choice.fn = "choose_string"
  /\ choice.v1 = StrV(<<"M">>)
  /\ choice.v2 = StrV(<<"T", "h", "e", " ", "M">>)
  /\ choice.c1 = R(1, 2)
  /\ choice.c2 = R(1, 2)
  /\ Returned = <<choice.v2, R(3, 4)>>

(***************************************************************************)
(* Claims about the merges of a list of constructed guesses (Spec).        *)
(***************************************************************************)
Carriers(gs, p) == {i \in DOMAIN gs : p \in Keys(gs[i])}
Among(app) == {app[i] : i \in DOMAIN app}
IsCall(op) == last.op = op

\* the first guess of gs, in list order, whose confidence for p is maximal
FirstBest(gs, p) ==
  CHOOSE i \in Carriers(gs, p) :
    /\ \A j \in Carriers(gs, p) : RLeq(gs[j].conf[p], gs[i].conf[p])
    /\ \A j \in Carriers(gs, p) : j < i => RLt(gs[j].conf[p], gs[i].conf[p])

\* C1: merge_all's running result, before pruning, holds for every property
\* that is not appended the value and confidence of the first guess in list
\* order whose confidence for it is maximal (a later guess wins only with a
\* strictly greater confidence); a property no guess carries is not in it.
C1_HighestConfidenceFirst ==
  (IsCall("merge_all") /\ last.mid # <<>>) =>
    \A p \in Props \ Among(last.app) :
      LET mid == last.mid[1]
      IN  IF Carriers(last.pre, p) = {} THEN p \notin Keys(mid)
          ELSE LET best == last.pre[FirstBest(last.pre, p)]
               IN  /\ p \in Keys(mid)
                   /\ mid.val[p] = best.val[p]
                   /\ mid.conf[p] = best.conf[p]

C1_Witness ==
  /\ IsCall("merge_all")
  /\ last.app = <<>>
  /\ last.pre = << Guess([episodeNumber |-> IntV(1)], R(1, 50)),
                   Guess([episodeNumber |-> IntV(2)], R(1, 5)),
                   Guess([episodeNumber |-> IntV(1)], R(1, 5)) >>
  /\ last.mid = << Guess([episodeNumber |-> IntV(2)], R(1, 5)) >>

\* C2: the guess merge_all returns holds no property of confidence below
\* 0.05 and holds every property whose winning confidence is at least 0.05
\* (exactly 0.05 is kept): a property that is not appended is returned iff
\* some guess carries it with a confidence of at least 0.05, an appended one
\* iff the confidence it got in the loop is.
C2_PruneBelowThreshold ==
  (IsCall("merge_all") /\ last.ret # <<>> /\ last.pre # <<>>) =>
    LET ret == last.ret[1]
        mid == last.mid[1]
    IN  /\ \A p \in Keys(ret) : p \in DOMAIN ret.conf /\ RGeq(ret.conf[p], Threshold)
        /\ \A p \in Keys(mid) : RGeq(mid.conf[p], Threshold) => p \in Keys(ret)
        /\ \A p \in Props \ Among(last.app) :
             p \in Keys(ret) <=>
               \E i \in Carriers(last.pre, p) : RGeq(last.pre[i].conf[p], Threshold)

C2_Witness ==
  /\ IsCall("merge_all")
  /\ last.app = <<>>
  /\ last.pre = << Guess([episodeNumber |-> IntV(2)], R(1, 50)),
                   Guess([title |-> StrV(<<"M">>)], Threshold) >>
  /\ last.ret # <<>>
  /\ last.ret[1].val = [title |-> StrV(<<"M">>)]

Scalar(v) == ~IsList(v)
Values(gs, p) == {gs[i].val[p] : i \in Carriers(gs, p)}
Elements(v) == {v.l[i] : i \in DOMAIN v.l}
NoRepeats(v) == \A i, j \in DOMAIN v.l : v.l[i] = v.l[j] => i = j

\* C3: merge_all on N >= 1 guesses that each carry one scalar value for the
\* append property completes without error and returns a guess whose value
\* for it is the sequence of the distinct values of all N guesses, with every
\* other property of the guesses in the result (pruned properties aside).
C3_AppendRoundTrip ==
  \A p \in Props :
    (/\ IsCall("merge_all")
     /\ last.app = <<p>>
     /\ last.pre # <<>>
     /\ \A i \in DOMAIN last.pre : p \in Keys(last.pre[i]) /\ Scalar(last.pre[i].val[p])) =>
      /\ last.err = "none"
      /\ last.ret # <<>>
      /\ LET ret == last.ret[1]
             mid == last.mid[1]
         IN  /\ RGeq(mid.conf[p], Threshold) =>
                  /\ p \in Keys(ret)
                  /\ IsList(ret.val[p])
                  /\ Elements(ret.val[p]) = Values(last.pre, p)
                  /\ NoRepeats(ret.val[p])
             /\ \A q \in Props \ {p} :
                  (Carriers(last.pre, q) # {} /\ RGeq(mid.conf[q], Threshold)) =>
                    q \in Keys(ret)

FirstTwo(gs, p) ==
  LET first == CHOOSE i \in Carriers(gs, p) : \A j \in Carriers(gs, p) : i <= j
      second == CHOOSE i \in Carriers(gs, p) \ {first} :
                  \A j \in Carriers(gs, p) \ {first} : i <= j
  IN  <<gs[first], gs[second]>>

ShareMoreThanOne(pair) == \E p, q \in Keys(pair[1]) \cap Keys(pair[2]) : p # q

\* C5: merge_similar_guesses terminates and returns normally on every list
\* and property; when three or more guesses carry the property and the first
\* two share more than one property name the pair is skipped and the list is
\* left as it was.
C5_MergeSimilarReturns ==
  IsCall("merge_similar_guesses") =>
    /\ last.err = "none"
    /\ (/\ Cardinality(Carriers(last.pre, last.prop)) >= 3
        /\ ShareMoreThanOne(FirstTwo(last.pre, last.prop))) => guesses = last.pre

\* C6: when the first two guesses carrying the property share more than one
\* property name, _merge_similar_guesses_nocheck changes nothing: the same
\* guesses in the same order with all their values and confidences.
C6_AmbiguousPairUntouched ==
  (IsCall("_merge_similar_guesses_nocheck")
     /\ ShareMoreThanOne(FirstTwo(last.pre, last.prop))) =>
    /\ guesses = last.pre
    /\ last.err = "none"

C6_Witness ==
  /\ IsCall("_merge_similar_guesses_nocheck")
  /\ last.prop = "episodeNumber"
  /\ last.pre = << Guess([episodeNumber |-> IntV(1), title |-> StrV(<<"M">>)], R(1, 5)),
                   Guess([title |-> StrV(<<"M", "x">>)], R(1, 5)),
                   Guess([episodeNumber |-> IntV(1), title |-> StrV(<<"M">>)], R(1, 50)) >>
  /\ guesses = last.pre

\* the values of the guesses of gs that carry p, in list order
RECURSIVE ValuesInOrder(_, _)
ValuesInOrder(gs, p) ==
  IF gs = <<>> THEN <<>>
  ELSE IF p \in Keys(Head(gs)) THEN <<Head(gs).val[p]>> \o ValuesInOrder(Tail(gs), p)
  ELSE ValuesInOrder(Tail(gs), p)

Later(gs, p) ==
  {i \in Carriers(gs, p) : \E j \in Carriers(gs, p) : j < i}

\* C7: merge_append_guesses completes without error on every list in which
\* a guess carries the property; afterwards one guess carries it, with the
\* sequence of all the guesses' values in list order and every other
\* property of the consumed guesses (the last one's value), and the list is
\* the old one without the consumed guesses.
C7_AppendMergesAll ==
  (IsCall("merge_append_guesses") /\ Carriers(last.pre, last.prop) # {}) =>
    LET p == last.prop
        pre == last.pre
        kept == SelectSeq([i \in DOMAIN pre |-> i], LAMBDA i : i \notin Later(pre, p))
    IN  /\ last.err = "none"
        /\ Cardinality(Carriers(guesses, p)) = 1
        /\ Len(guesses) = Len(kept)
        /\ \A k \in DOMAIN kept :
             IF p \notin Keys(pre[kept[k]]) THEN guesses[k] = pre[kept[k]]
             ELSE /\ guesses[k].val[p] = ListV(ValuesInOrder(pre, p))
                  /\ \A q \in Props \ {p} :
                       /\ q \in Keys(guesses[k]) <=>
                            \E i \in Carriers(pre, p) : q \in Keys(pre[i])
                       /\ \A i \in Later(pre, p) :
                            (q \in Keys(pre[i])
                               /\ \A j \in Later(pre, p) : j > i => q \notin Keys(pre[j])) =>
                              guesses[k].val[q] = pre[i].val[q]

\* the second of two merge_all calls, made on the result of the first
IsSecondCall == IsCall("merge_all") /\ last.idx = 1

\* C11 as stated: merge_all called again on [r], r the result of a first
\* merge_all with the same append properties, completes without error and
\* returns r with the same properties, values and confidences.
C11_AsStated ==
  IsSecondCall => (last.err = "none" /\ last.ret = last.pre)

\* two values are the same but for the order of a list's elements
SameElements(v, w) ==
  \/ v = w
  \/ /\ IsList(v)
     /\ IsList(w)
     /\ Len(v.l) = Len(w.l)
     /\ Elements(v) = Elements(w)

\* C11: merge_all called again on [r] completes without error and returns a
\* guess with the properties and confidences of r, every property that is
\* not appended with the value it has in r, and every appended property with
\* a list of the same distinct elements as in r, in any order.
C11_IdempotentUpToOrder ==
  IsSecondCall =>
    /\ last.err = "none"
    /\ last.ret # <<>>
    /\ LET r == last.pre[1]
           again == last.ret[1]
       IN  /\ Keys(again) = Keys(r)
           /\ again.conf = r.conf
           /\ \A p \in Keys(r) \ Among(last.app) : again.val[p] = r.val[p]
           /\ \A p \in Keys(r) \cap Among(last.app) :
                /\ SameElements(again.val[p], r.val[p])
                /\ NoRepeats(again.val[p])

C11_Witness ==
  /\ IsSecondCall
  /\ last.app = <<"episodeNumber">>
  /\ last.pre = << [val |-> [title |-> StrV(<<"M">>),
                              episodeNumber |-> ListV(<<IntV(1), IntV(2)>>)],
                     conf |-> [title |-> R(1, 5), episodeNumber |-> R(1, 5)]] >>
  /\ last.ret # <<>>
  /\ last.ret[1].val["episodeNumber"] = ListV(<<IntV(2), IntV(1)>>)

\* the carriers of p in list order
CarriersInOrder(gs, p) ==
  SelectSeq([i \in DOMAIN gs |-> i], LAMBDA i : p \in Keys(gs[i]))

\* the reconciler folded left to right over the carriers, each step's output
\* feeding the next
RECURSIVE Fold(_, _, _, _, _)
Fold(chooser, acc, gs, p, rest) ==
  IF rest = <<>> THEN acc
  ELSE Fold(chooser,
            Choose(chooser, acc, <<gs[Head(rest)].val[p], gs[Head(rest)].conf[p]>>).out,
            gs, p, Tail(rest))

\* no two carriers of p share another property name
ShareOnly(gs, p) ==
  \A i, j \in Carriers(gs, p) : i # j => Keys(gs[i]) \cap Keys(gs[j]) = {p}

\* the list without its guesses at the positions in gone
Without(gs, gone) == SelectSeq([i \in DOMAIN gs |-> IF i \in gone THEN <<>> ELSE <<gs[i]>>],
                               LAMBDA x : x # <<>>)

\* merge_similar_guesses on a list with k >= 2 carriers of which no two share
\* another property: the list loses k-1 guesses, one guess carries the
\* property and holds the folded value and confidence and every other
\* property of the carriers with its confidence, the guesses that do not
\* carry the property stay in their order; inPlace: the one carrier is at
\* the position of the first carrier and the later carriers are the ones gone
MergeSimilarFolds(inPlace) ==
  LET pre == last.pre
      p == last.prop
      similar == CarriersInOrder(pre, p)
      k == Len(similar)
  IN  (IsCall("merge_similar_guesses") /\ k >= 2 /\ ShareOnly(pre, p)) =>
        /\ last.err = "none"
        /\ Len(guesses) = Len(pre) - (k - 1)
        /\ Cardinality(Carriers(guesses, p)) = 1
        /\ LET at == CHOOSE i \in Carriers(guesses, p) : TRUE
               g1 == guesses[at]
               folded == Fold(last.chooser, <<pre[similar[1]].val[p], pre[similar[1]].conf[p]>>,
                              pre, p, Tail(similar))
           IN  /\ g1.val[p] = folded[1]
               /\ g1.conf[p] = folded[2]
               /\ \A i \in Carriers(pre, p) : \A q \in Keys(pre[i]) \ {p} :
                    /\ q \in Keys(g1)
                    /\ g1.val[q] = pre[i].val[q]
                    /\ g1.conf[q] = pre[i].conf[q]
               /\ Without(guesses, {at}) = Without(pre, Carriers(pre, p))
               /\ inPlace =>
                    /\ at = similar[1]
                    /\ Without(guesses, {at}) =
                         Without(pre, {similar[1]} \cup {similar[j] : j \in 2..k})
                    /\ \A i \in DOMAIN guesses : i < at => guesses[i] = pre[i]

\* C13: on every list in which k >= 2 guesses carry the property and no two
\* of them share another property name, merge_similar_guesses shortens the
\* list by k-1 and leaves one carrier: the first carrier g1 stays at its
\* position, every later carrier is removed, g1 holds the reconciler folded
\* left to right over the k carriers and every other property of the
\* absorbed guesses with its confidence.
C13_MergeSimilarFolds == MergeSimilarFolds(TRUE)

(***************************************************************************)
(* Claims about sequences of Guess methods and merges (GuessSpec).         *)
(***************************************************************************)
HasConfidences(g) == Keys(g) \subseteq DOMAIN g.conf

\* C4: after any sequence of construction, set, update,
\* update_highest_confidence and the merges every property a guess holds a
\* value for has a confidence entry, and a property first inserted by set
\* without a confidence has confidence 0.
C4_EveryValueHasConfidence ==
  /\ \A i \in DOMAIN guesses : HasConfidences(guesses[i])
  /\ (IsCall("set") /\ last.conf = None /\ last.prop \notin Keys(last.pre[1])
        /\ last.prop \notin DOMAIN last.pre[1].conf) =>
       /\ last.prop \in DOMAIN guesses[last.idx].conf
       /\ guesses[last.idx].conf[last.prop] = Zero

\* Guess.confidence(prop): self._confidence[prop]
confidence(g, prop) ==
  IF prop \in DOMAIN g.conf THEN [err |-> "none", c |-> g.conf[prop]]
  ELSE [err |-> "KeyError", c |-> None]

\* C12: after any sequence of Guess and merge operations, confidence(key)
\* fails with a KeyError for every key that is absent from the values of a
\* guess, a key merge_all pruned from its result and an append property
\* merge_all deleted from an input guess included.
C12_AbsentKeyNotFound ==
  \A i \in DOMAIN guesses :
    \A key \in Props \ Keys(guesses[i]) :
      confidence(guesses[i], key).err = "KeyError"

====
